---- MODULE Spec2Model ----
(***************************************************************************)
(* A state-machine model of the Kawarp rendering engine                    *)
(* (src/packages/core/src/index.ts, class Kawarp, lines 972-1730).         *)
(*                                                                         *)
(* Units.  Every real-valued parameter is kept in thousandths (1.0 is      *)
(* 1000, 0.008 is 8, blurPasses 8 is 8000), so that Math.floor and the     *)
(* clamps act on values that are not whole numbers.  Times                 *)
(* (performance.now(), frame timestamps, transitionDuration) are whole     *)
(* milliseconds.                                                           *)
(*                                                                         *)
(* WebGL.  The context is modelled by the set of live objects, the content *)
(* of every texture and of the output surface, and an error flag.  A call  *)
(* that names a deleted object raises INVALID_OPERATION and writes nothing *)
(* (WebGL 1.0, section 5.14: deleting a deleted object has no effect).     *)
(***************************************************************************)
EXTENDS Integers, Sequences, FiniteSets, TLC

VARIABLES
    kawarp,     \* the fields of the Kawarp instance
    gl,         \* the WebGL context: live objects, texture contents, output
    raf,        \* the browser's animation-frame callback queue
    loads,      \* the promises returned by loadImage / loadBlob
    now,        \* performance.now(), in ms
    disposed,   \* history: dispose() has been called at least once
    calls       \* history: the number of setter calls made so far

vars == <<kawarp, gl, raf, loads, now, disposed, calls>>

(***************************************************************************)
(* Bounds of the model.                                                    *)
(***************************************************************************)
NumImages == 1
MaxLoads == 1
MaxCallbacks == 2
MaxTicks == 1
TickMs == 1000
MaxLag == 1
MaxColors == 2

Images == 1..NumImages
LoadIds == 1..MaxLoads

Max(a, b) == IF a >= b THEN a ELSE b
Min(a, b) == IF a <= b THEN a ELSE b

(***************************************************************************)
(* Options.  A KawarpOptions object is a function from the names of the    *)
(* fields it defines to their values; a field that is absent is undefined. *)
(***************************************************************************)
Has(options, f) == f \in DOMAIN options

Restrict(options, F) == [f \in (DOMAIN options) \cap F |-> options[f]]

OptionNames ==
    {"warpIntensity", "blurPasses", "animationSpeed", "transitionDuration",
     "saturation", "tintColor", "tintIntensity", "dithering"}

DEFAULTS ==
    [warpIntensity |-> 1000, blurPasses |-> 8000, animationSpeed |-> 1000,
     transitionDuration |-> 1000, saturation |-> 1500,
     tintColor |-> <<157, 157, 235>>, tintIntensity |-> 150, dithering |-> 8]

\* The documented range of every numeric parameter.
RANGE ==
    [warpIntensity |-> <<0, 1000>>, blurPasses |-> <<1000, 40000>>,
     animationSpeed |-> <<100, 5000>>, transitionDuration |-> <<0, 5000>>,
     saturation |-> <<0, 3000>>, tintColor |-> <<0, 1000>>,
     tintIntensity |-> <<0, 1000>>, dithering |-> <<0, 100>>]

\* Math.floor of a value in thousandths (\div rounds towards minus infinity).
MathFloor(value) == (value \div 1000) * 1000

\* Math.max(lo, Math.min(hi, value))
Clamp(lo, hi, value) == Max(lo, Min(hi, value))

(***************************************************************************)
(* Texture contents.  The content of a small texture is the image it was   *)
(* derived from and the passes applied to it: the tint parameters, the     *)
(* offsets of the Kawase passes in order, or the operands of a blend.      *)
(***************************************************************************)
Image(i) == [img |-> i, tint |-> <<>>, offs |-> <<>>, mix |-> <<>>]

Empty == Image(0)

\* TINT_SHADER: blend towards tintColor by mask * tintIntensity.
TintPass(c, tintColor, tintIntensity) ==
    [c EXCEPT !.tint = <<tintColor[1], tintColor[2], tintColor[3], tintIntensity>>]

\* KAWASE_BLUR_SHADER at u_offset: four taps at the same texel when the
\* offset is 0, which is a copy.
BlurPass(c, offset) ==
    IF offset = 0 THEN c ELSE [c EXCEPT !.offs = Append(@, offset)]

\* BLEND_SHADER: mix(texture1, texture2, u_blend)
BlendPass(c1, c2, blend) ==
    [img |-> 0, tint |-> <<>>, offs |-> <<>>, mix |-> <<c1, c2, blend>>]

(***************************************************************************)
(* The WebGL context.                                                      *)
(***************************************************************************)
Programs ==
    {"blurProgram", "blendProgram", "tintProgram", "warpProgram", "outputProgram"}

Buffers == {"positionBuffer", "texCoordBuffer"}

SmallFBOs == {"blurFBO1", "blurFBO2", "albumFBO1", "albumFBO2"}

SmallTextures == {"sourceTexture"} \cup SmallFBOs

NoWarp == [src |-> Empty, time |-> 0, intensity |-> 0]

NoFrame == [drawn |-> FALSE, warp |-> NoWarp, saturation |-> 0, dithering |-> 0]

\* The widths the host gives the canvas; a new canvas is 300 pixels wide.
Surfaces == {300, 600}

\* gl.delete*(objects): a deleted object's storage is gone; deleting an
\* object that is already deleted has no effect.  `allocated` counts the
\* objects that were created and not deleted since.
glDelete(g, objects) ==
    [g EXCEPT !.live = @ \ objects,
              !.allocated = @ - Cardinality(objects \cap g.live),
              !.tex = [t \in SmallTextures |-> IF t \in objects THEN Empty ELSE @[t]],
              !.warp = IF "warpFBO" \in objects THEN NoWarp ELSE @,
              !.warpSize = IF "warpFBO" \in objects THEN 0 ELSE @]

\* gl.create*(): a new live object with no content.
glCreate(g, object) ==
    [g EXCEPT !.live = @ \cup {object}, !.allocated = @ + 1]

\* bindTexture + texImage2D(..., source) on a small texture.
glTexImage(g, texture, content) ==
    IF texture \in g.live
    THEN [g EXCEPT !.tex[texture] = content]
    ELSE [g EXCEPT !.invalid = TRUE]

\* A drawArrays call: the program in use, the render target bound, the
\* textures bound to the units the program samples, and what the call
\* writes.  `log` lists the draw calls of the operation under way, in order.
glLog(g, program, target, reads, wrote) ==
    [g EXCEPT !.log = Append(@, [program |-> program, target |-> target,
                                 reads |-> reads, wrote |-> wrote])]

\* useProgram + bindFramebuffer(target) + bindTexture(reads) + drawArrays
\* into a small render target.
glDraw(g, program, target, reads, content) ==
    LET g1 == glLog(g, program, target, reads, content)
    IN  IF ({program, target} \cup reads \cup Buffers) \subseteq g.live
        THEN [g1 EXCEPT !.tex[target] = content]
        ELSE [g1 EXCEPT !.invalid = TRUE]

\* The warp pass: DOMAIN_WARP_SHADER sampling `texture` into the
\* full-resolution target.
glDrawWarp(g, texture, time, intensity) ==
    LET warp == [src |-> g.tex[texture], time |-> time, intensity |-> intensity]
        g1   == glLog(g, "warpProgram", "warpFBO", {texture}, warp)
    IN  IF ({"warpProgram", "warpFBO", texture} \cup Buffers) \subseteq g.live
        THEN [g1 EXCEPT !.warp = warp]
        ELSE [g1 EXCEPT !.invalid = TRUE]

\* The output pass: OUTPUT_SHADER sampling the full-resolution target into
\* the default framebuffer (the canvas).
glDrawOutput(g, saturation, dithering) ==
    LET frame == [drawn |-> TRUE, warp |-> g.warp,
                  saturation |-> saturation, dithering |-> dithering]
        g1    == glLog(g, "outputProgram", "canvas", {"warpFBO"}, frame)
    IN  IF ({"outputProgram", "warpFBO"} \cup Buffers) \subseteq g.live
        THEN [g1 EXCEPT !.canvas = frame]
        ELSE [g1 EXCEPT !.invalid = TRUE]

(***************************************************************************)
(* The animation-frame queue of the browser.  A callback id is a positive  *)
(* integer; requestAnimationFrame hands out the smallest id that no queued *)
(* callback holds (the engine keeps no handle of a callback that has run   *)
(* or was cancelled, so reusing an id stands for a fresh one).  `ts` is    *)
(* the timestamp of the last display refresh, -1 before the first.         *)
(***************************************************************************)
SeqToSet(s) == {s[i] : i \in DOMAIN s}

Queued(r) == r.pending \cup SeqToSet(r.batch)

FreshId(r) == CHOOSE id \in 1..(Cardinality(Queued(r)) + 1) :
                 /\ id \notin Queued(r)
                 /\ \A j \in 1..(id - 1) : j \in Queued(r)

requestAnimationFrame(r) == [r EXCEPT !.pending = @ \cup {FreshId(r)}]

cancelAnimationFrame(r, id) ==
    [r EXCEPT !.pending = @ \ {id},
              !.batch = SelectSeq(@, LAMBDA x : x # id),
              !.stale = @ \ {id}]

(***************************************************************************)
(* The engine.  An operation of the class is a function of the "world" it  *)
(* runs in, w = [k |-> the instance, gl |-> the context, raf |-> the frame *)
(* queue], to the world it leaves; an action below commits the result.     *)
(***************************************************************************)
World == [k |-> kawarp, gl |-> gl, raf |-> raf]

\* The passes i = first .. last-1 of the loop `for (i = 0; i < blurPasses;
\* i++)`: pass i draws readFBO into writeFBO at offset i + 0.5 and swaps
\* the two.  The range is evaluated half by half, the first half before the
\* second, which keeps the evaluation depth logarithmic in the pass count.
RECURSIVE BlurLoop(_, _, _, _, _)
BlurLoop(g, first, last, readFBO, writeFBO) ==
    IF last <= first
    THEN [gl |-> g, readFBO |-> readFBO]
    ELSE IF last = first + 1
    THEN [gl |-> glDraw(g, "blurProgram", writeFBO, {readFBO},
                        BlurPass(g.tex[readFBO], first * 1000 + 500)),
          readFBO |-> writeFBO]
    ELSE LET mid  == (first + last) \div 2
             done == BlurLoop(g, first, mid, readFBO, writeFBO)
         IN  IF done.readFBO = readFBO
             THEN BlurLoop(done.gl, mid, last, readFBO, writeFBO)
             ELSE BlurLoop(done.gl, mid, last, writeFBO, readFBO)

\* The number of i = 0, 1, ... with i < blurPasses (blurPasses in thousandths)
Iterations(blurPasses) == (blurPasses + 999) \div 1000

\* blurSourceInto without the tint pass: the blur passes start from what
\* blurFBO1 holds.
blurSourceInto_noTint(w, targetFBO) ==
    LET l == BlurLoop(w.gl, 0, Iterations(w.k.blurPasses), "blurFBO1", "blurFBO2")
    IN  [w EXCEPT !.gl = glDraw(l.gl, "blurProgram", targetFBO, {l.readFBO},
                                BlurPass(l.gl.tex[l.readFBO], 0))]

\* blurSourceInto whose final copy always reads blurFBO1.
blurSourceInto_copiesFirst(w, targetFBO) ==
    LET g1 == glDraw(w.gl, "tintProgram", "blurFBO1", {"sourceTexture"},
                     TintPass(w.gl.tex["sourceTexture"], w.k.tintColor,
                              w.k.tintIntensity))
        l  == BlurLoop(g1, 0, Iterations(w.k.blurPasses), "blurFBO1", "blurFBO2")
    IN  [w EXCEPT !.gl = glDraw(l.gl, "blurProgram", targetFBO, {"blurFBO1"},
                                BlurPass(l.gl.tex["blurFBO1"], 0))]

\* Blur the source texture into the target FBO (tint applied before blur).
blurSourceInto(w, targetFBO) ==
    LET g1 == glDraw(w.gl, "tintProgram", "blurFBO1", {"sourceTexture"},
                     TintPass(w.gl.tex["sourceTexture"], w.k.tintColor,
                              w.k.tintIntensity))
        l  == BlurLoop(g1, 0, Iterations(w.k.blurPasses), "blurFBO1", "blurFBO2")
    IN  [w EXCEPT !.gl = glDraw(l.gl, "blurProgram", targetFBO, {l.readFBO},
                                BlurPass(l.gl.tex[l.readFBO], 0))]

\* reblurCurrentImage that also starts a transition.
reblurCurrentImage_transitions(w) ==
    [blurSourceInto(w, w.k.nextAlbumFBO) EXCEPT !.k.isTransitioning = TRUE]

\* Re-blur the image on display with the parameters as they are now.
reblurCurrentImage(w) == blurSourceInto(w, w.k.nextAlbumFBO)

\* processNewImage that keeps the start time of a transition under way.
processNewImage_keepsStart(w, t) ==
    LET swapped == [w EXCEPT !.k.currentAlbumFBO = w.k.nextAlbumFBO,
                             !.k.nextAlbumFBO = w.k.currentAlbumFBO]
        blurred == blurSourceInto(swapped, swapped.k.nextAlbumFBO)
    IN  [blurred EXCEPT !.k.hasImage = TRUE,
                        !.k.isTransitioning = TRUE,
                        !.k.transitionStartTime =
                            IF w.k.isTransitioning THEN @ ELSE t]

\* processNewImage that blurs into 'next' without exchanging the slots.
processNewImage_noSwap(w, t) ==
    LET blurred == blurSourceInto(w, w.k.nextAlbumFBO)
    IN  [blurred EXCEPT !.k.hasImage = TRUE,
                        !.k.isTransitioning = TRUE,
                        !.k.transitionStartTime = t]

\* Process a new image: swap the album FBOs, blur into next, start the
\* transition.  `t` is the reading of performance.now().
processNewImage(w, t) ==
    LET swapped == [w EXCEPT !.k.currentAlbumFBO = w.k.nextAlbumFBO,
                             !.k.nextAlbumFBO = w.k.currentAlbumFBO]
        blurred == blurSourceInto(swapped, swapped.k.nextAlbumFBO)
    IN  [blurred EXCEPT !.k.hasImage = TRUE,
                        !.k.isTransitioning = TRUE,
                        !.k.transitionStartTime = t]

(***************************************************************************)
(* Setters.  Each returns the world after `this.<name> = value`.           *)
(***************************************************************************)
set_warpIntensity(w, value) ==
    [w EXCEPT !.k.warpIntensity = Clamp(0, 1000, value)]

\* The blurPasses setter without Math.floor.
set_blurPasses_noFloor(w, value) ==
    LET newValue == Clamp(1000, 40000, value)
    IN  IF newValue # w.k.blurPasses
        THEN LET w1 == [w EXCEPT !.k.blurPasses = newValue]
             IN  IF w1.k.hasImage THEN reblurCurrentImage(w1) ELSE w1
        ELSE w

set_blurPasses(w, value) ==
    LET newValue == Clamp(1000, 40000, MathFloor(value))
    IN  IF newValue # w.k.blurPasses
        THEN LET w1 == [w EXCEPT !.k.blurPasses = newValue]
             IN  IF w1.k.hasImage THEN reblurCurrentImage(w1) ELSE w1
        ELSE w

set_animationSpeed(w, value) ==
    [w EXCEPT !.k.targetAnimationSpeed = Clamp(100, 5000, value)]

set_transitionDuration(w, value) ==
    [w EXCEPT !.k.transitionDuration = Clamp(0, 5000, value)]

set_saturation(w, value) ==
    [w EXCEPT !.k.saturation = Clamp(0, 3000, value)]

\* The tintColor setter storing the colour without re-blurring.
set_tintColor_noReblur(w, value) ==
    [w EXCEPT !.k.tintColor = [i \in DOMAIN value |-> Clamp(0, 1000, value[i])]]

set_tintColor(w, value) ==
    LET newValue == [i \in DOMAIN value |-> Clamp(0, 1000, value[i])]
        changed  == \E i \in DOMAIN newValue : newValue[i] # w.k.tintColor[i]
    IN  IF changed
        THEN LET w1 == [w EXCEPT !.k.tintColor = newValue]
             IN  IF w1.k.hasImage THEN reblurCurrentImage(w1) ELSE w1
        ELSE w

\* The tintIntensity setter re-blurring whether or not the value changed.
set_tintIntensity_always(w, value) ==
    LET w1 == [w EXCEPT !.k.tintIntensity = Clamp(0, 1000, value)]
    IN  IF w1.k.hasImage THEN reblurCurrentImage(w1) ELSE w1

set_tintIntensity(w, value) ==
    LET newValue == Clamp(0, 1000, value)
    IN  IF newValue # w.k.tintIntensity
        THEN LET w1 == [w EXCEPT !.k.tintIntensity = newValue]
             IN  IF w1.k.hasImage THEN reblurCurrentImage(w1) ELSE w1
        ELSE w

set_dithering(w, value) ==
    [w EXCEPT !.k.dithering = Clamp(0, 100, value)]

\* setOptions: every defined field goes through its setter, in this order.
setOptions(w, options) ==
    LET w1 == IF Has(options, "warpIntensity")
              THEN set_warpIntensity(w, options.warpIntensity) ELSE w
        w2 == IF Has(options, "blurPasses")
              THEN set_blurPasses(w1, options.blurPasses) ELSE w1
        w3 == IF Has(options, "animationSpeed")
              THEN set_animationSpeed(w2, options.animationSpeed) ELSE w2
        w4 == IF Has(options, "transitionDuration")
              THEN set_transitionDuration(w3, options.transitionDuration) ELSE w3
        w5 == IF Has(options, "saturation")
              THEN set_saturation(w4, options.saturation) ELSE w4
        w6 == IF Has(options, "tintColor")
              THEN set_tintColor(w5, options.tintColor) ELSE w5
        w7 == IF Has(options, "tintIntensity")
              THEN set_tintIntensity(w6, options.tintIntensity) ELSE w6
    IN  IF Has(options, "dithering")
        THEN set_dithering(w7, options.dithering) ELSE w7

getOptions(k) ==
    [warpIntensity |-> k.warpIntensity, blurPasses |-> k.blurPasses,
     animationSpeed |-> k.targetAnimationSpeed,
     transitionDuration |-> k.transitionDuration, saturation |-> k.saturation,
     tintColor |-> k.tintColor, tintIntensity |-> k.tintIntensity,
     dithering |-> k.dithering]

(***************************************************************************)
(* Construction.                                                           *)
(***************************************************************************)
\* options.<f> ?? default
OrDefault(options, f) == IF Has(options, f) THEN options[f] ELSE DEFAULTS[f]

\* resize() that creates the new full-resolution target without deleting
\* the old one.
resize_leaks(w) ==
    LET g1 == glCreate(w.gl, "warpFBO")
    IN  [w EXCEPT !.gl = [g1 EXCEPT !.warpSize = g1.surface],
                  !.k.warpFBO = "warpFBO"]

\* resize() that re-creates the full-resolution target at its old size.
resize_keepsSize(w) ==
    LET g1 == glCreate(glDelete(w.gl, {w.k.warpFBO}), "warpFBO")
    IN  [w EXCEPT !.gl = [g1 EXCEPT !.warpSize = w.gl.warpSize],
                  !.k.warpFBO = "warpFBO"]

\* resize(): the full-resolution target is deleted and created again at
\* the size the canvas has now.
resize(w) ==
    LET g1 == glCreate(glDelete(w.gl, {w.k.warpFBO}), "warpFBO")
    IN  [w EXCEPT !.gl = [g1 EXCEPT !.warpSize = g1.surface],
                  !.k.warpFBO = "warpFBO"]

constructor(options) ==
    LET k0 == [warpIntensity |-> OrDefault(options, "warpIntensity"),
               blurPasses |-> OrDefault(options, "blurPasses"),
               animationSpeed |-> OrDefault(options, "animationSpeed"),
               targetAnimationSpeed |-> OrDefault(options, "animationSpeed"),
               transitionDuration |-> OrDefault(options, "transitionDuration"),
               saturation |-> OrDefault(options, "saturation"),
               tintColor |-> OrDefault(options, "tintColor"),
               tintIntensity |-> OrDefault(options, "tintIntensity"),
               dithering |-> OrDefault(options, "dithering"),
               animationId |-> 0, lastFrameTime |-> 0, accumulatedTime |-> 0,
               isPlaying |-> FALSE, isTransitioning |-> FALSE,
               transitionStartTime |-> 0, hasImage |-> FALSE,
               currentAlbumFBO |-> "albumFBO1", nextAlbumFBO |-> "albumFBO2",
               warpFBO |-> "warpFBO"]
        objects == Programs \cup Buffers \cup SmallTextures \cup {"warpFBO"}
        g0 == [live |-> objects, allocated |-> Cardinality(objects),
               tex |-> [t \in SmallTextures |-> Empty],
               warp |-> NoWarp, warpSize |-> 1, surface |-> 300,
               canvas |-> NoFrame, invalid |-> FALSE, log |-> <<>>]
        r0 == [pending |-> {}, batch |-> <<>>, ts |-> -1, renders |-> 0,
               stale |-> {}]
    IN  resize([k |-> k0, gl |-> g0, raf |-> r0])

\* The operation has returned: its draw calls are behind it.
Commit(w) == /\ kawarp' = w.k
             /\ gl' = [w.gl EXCEPT !.log = <<>>]
             /\ raf' = w.raf

(***************************************************************************)
(* Quotients.  A quotient of two integers is kept exact, with the values   *)
(* IEEE division yields for a zero divisor.                                *)
(***************************************************************************)
Num(n, d) == [kind |-> "num", n |-> n, d |-> d]

One == Num(1, 1)

\* elapsed / duration, as JavaScript divides two numbers
Divide(elapsed, duration) ==
    IF duration = 0
    THEN IF elapsed > 0 THEN [kind |-> "+inf", n |-> 1, d |-> 0]
         ELSE IF elapsed < 0 THEN [kind |-> "-inf", n |-> -1, d |-> 0]
         ELSE [kind |-> "nan", n |-> 0, d |-> 0]
    ELSE IF duration > 0 THEN Num(elapsed, duration)
         ELSE Num(-elapsed, -duration)

(***************************************************************************)
(* Ingest.                                                                 *)
(***************************************************************************)
\* loadImageElement(source): upload, then processNewImage.
loadImageElement(w, img, t) ==
    processNewImage([w EXCEPT !.gl = glTexImage(w.gl, "sourceTexture", Image(img))], t)

\* loadImageData(data, width, height): upload, then processNewImage.
loadImageData(w, img, t) ==
    processNewImage([w EXCEPT !.gl = glTexImage(w.gl, "sourceTexture", Image(img))], t)

\* An onload that resolves once the image is uploaded, before the blur.
onload_uploadOnly(w, img, t) ==
    [w EXCEPT !.gl = glTexImage(w.gl, "sourceTexture", Image(img))]

\* An onerror that clears the displayed image before it rejects.
onerror_clears(w) ==
    [w EXCEPT !.k.hasImage = FALSE, !.k.isTransitioning = FALSE]

\* img.onload of loadImage: upload, processNewImage, then resolve().
onload(w, img, t) ==
    processNewImage([w EXCEPT !.gl = glTexImage(w.gl, "sourceTexture", Image(img))], t)

\* img.onerror of loadImage: reject(), and nothing else.
onerror(w) == w

\* The raster loadGradient draws for a list of `colors` colour stops.
GradientRaster(colors) == -(colors + 1)

\* The offsets handed to addColorStop: i / (colors.length - 1) for stop i.
StopOffsets(colors) == [i \in 0..(colors - 1) |-> Divide(i, colors - 1)]

\* addColorStop throws on an offset that is not a finite number in [0, 1].
GradientThrows(colors) ==
    \E i \in DOMAIN StopOffsets(colors) :
        LET offset == StopOffsets(colors)[i]
        IN  offset.kind # "num" \/ offset.n < 0 \/ offset.n > offset.d

\* loadGradient(colors, angle), for a list of `colors` colour stops: the
\* exception of addColorStop leaves the call before anything is ingested.
loadGradient(w, colors, t) ==
    IF GradientThrows(colors) THEN w
    ELSE loadImageElement(w, GradientRaster(colors), t)

(***************************************************************************)
(* The blend factor, a quotient of two millisecond counts.                 *)
(***************************************************************************)
\* Math.min(1.0, x): NaN stays NaN.
MathMin1(x) ==
    CASE x.kind = "+inf" -> One
      [] x.kind = "num" /\ x.n >= x.d -> One
      [] OTHER -> x

\* blendFactor >= 1.0 and blendFactor < 1.0: both are false of NaN.
AtLeastOne(x) == x.kind = "num" /\ x.n >= x.d

BelowOne(x) == x.kind = "-inf" \/ (x.kind = "num" /\ x.n < x.d)

(***************************************************************************)
(* Rendering and the animation loop.                                       *)
(***************************************************************************)
\* render that warps the 'current' album texture when it does not blend.
render_warpsCurrent(w, time, timestamp) ==
    LET k == w.k
        blendFactor ==
            IF k.isTransitioning
            THEN MathMin1(Divide(timestamp - k.transitionStartTime,
                                 k.transitionDuration))
            ELSE One
        isTransitioning ==
            IF k.isTransitioning /\ AtLeastOne(blendFactor)
            THEN FALSE ELSE k.isTransitioning
        w1 == [w EXCEPT !.k.isTransitioning = isTransitioning]
    IN  IF isTransitioning /\ BelowOne(blendFactor)
        THEN LET g1 == glDraw(w1.gl, "blendProgram", "blurFBO1",
                              {k.currentAlbumFBO, k.nextAlbumFBO},
                              BlendPass(w1.gl.tex[k.currentAlbumFBO],
                                        w1.gl.tex[k.nextAlbumFBO], blendFactor))
                 g2 == glDrawWarp(g1, "blurFBO1", time, k.warpIntensity)
             IN  [w1 EXCEPT !.gl = glDrawOutput(g2, k.saturation, k.dithering)]
        ELSE LET g2 == glDrawWarp(w1.gl, k.currentAlbumFBO, time, k.warpIntensity)
             IN  [w1 EXCEPT !.gl = glDrawOutput(g2, k.saturation, k.dithering)]

\* render(time, timestamp): one frame.
render(w, time, timestamp) ==
    LET k == w.k
        blendFactor ==
            IF k.isTransitioning
            THEN MathMin1(Divide(timestamp - k.transitionStartTime,
                                 k.transitionDuration))
            ELSE One
        isTransitioning ==
            IF k.isTransitioning /\ AtLeastOne(blendFactor)
            THEN FALSE ELSE k.isTransitioning
        w1 == [w EXCEPT !.k.isTransitioning = isTransitioning]
    IN  IF isTransitioning /\ BelowOne(blendFactor)
        THEN LET g1 == glDraw(w1.gl, "blendProgram", "blurFBO1",
                              {k.currentAlbumFBO, k.nextAlbumFBO},
                              BlendPass(w1.gl.tex[k.currentAlbumFBO],
                                        w1.gl.tex[k.nextAlbumFBO], blendFactor))
                 g2 == glDrawWarp(g1, "blurFBO1", time, k.warpIntensity)
             IN  [w1 EXCEPT !.gl = glDrawOutput(g2, k.saturation, k.dithering)]
        ELSE LET g2 == glDrawWarp(w1.gl, k.nextAlbumFBO, time, k.warpIntensity)
             IN  [w1 EXCEPT !.gl = glDrawOutput(g2, k.saturation, k.dithering)]

\* this._animationSpeed += (this._targetAnimationSpeed - this._animationSpeed) * 0.05
Smooth(current, target) == current + ((target - current) \div 20)

start(w, t) ==
    IF w.k.isPlaying THEN w
    ELSE [w EXCEPT !.k.isPlaying = TRUE,
                   !.k.lastFrameTime = t,
                   !.raf = requestAnimationFrame(w.raf)]

stop(w) ==
    IF w.k.animationId # 0
    THEN [w EXCEPT !.k.isPlaying = FALSE,
                   !.raf = cancelAnimationFrame(w.raf, w.k.animationId),
                   !.k.animationId = 0]
    ELSE [w EXCEPT !.k.isPlaying = FALSE]

dispose(w) ==
    LET w1 == stop(w)
    IN  [w1 EXCEPT !.gl = glDelete(w1.gl, Programs \cup Buffers \cup {"sourceTexture"}
                               \cup {"blurFBO1", "blurFBO2", w1.k.currentAlbumFBO,
                                     w1.k.nextAlbumFBO, w1.k.warpFBO})]

\* The frame callback.  accumulatedTime is in ms * thousandths.
renderLoop(w, timestamp) ==
    IF ~w.k.isPlaying THEN w
    ELSE LET dt    == timestamp - w.k.lastFrameTime
             speed == Smooth(w.k.animationSpeed, w.k.targetAnimationSpeed)
             time  == w.k.accumulatedTime + dt * speed
             w1    == render([w EXCEPT !.k.lastFrameTime = timestamp,
                                       !.k.animationSpeed = speed,
                                       !.k.accumulatedTime = time],
                             time, timestamp)
         IN  [w1 EXCEPT !.k.animationId = FreshId(w1.raf),
                        !.raf = [requestAnimationFrame(w1.raf)
                                   EXCEPT !.renders = @ + 1]]

\* renderFrame(time) that advances the engine's clock as renderFrame() does.
renderFrameAt_clock(w, time, t) ==
    LET dt    == t - w.k.lastFrameTime
        speed == Smooth(w.k.animationSpeed, w.k.targetAnimationSpeed)
    IN  render([w EXCEPT !.k.lastFrameTime = t,
                         !.k.animationSpeed = speed,
                         !.k.accumulatedTime = @ + dt * speed],
               time, t)

\* renderFrame(time): one frame at the given logical time.
renderFrameAt(w, time, t) == render(w, time, t)

\* renderFrame(): one frame at the next tick of the engine's own clock.
renderFrameNow(w, t) ==
    LET dt    == t - w.k.lastFrameTime
        speed == Smooth(w.k.animationSpeed, w.k.targetAnimationSpeed)
        time  == w.k.accumulatedTime + dt * speed
    IN  render([w EXCEPT !.k.lastFrameTime = t,
                         !.k.animationSpeed = speed,
                         !.k.accumulatedTime = time],
               time, t)

(***************************************************************************)
(* Actions.  A host task (a call of the public API, a load event, a clock  *)
(* tick) runs between display refreshes, never between two callbacks of    *)
(* one refresh.                                                            *)
(***************************************************************************)
Idle == raf.batch = <<>>

\* `this.<f> = value`
setter(w, f, value) ==
    CASE f = "warpIntensity"      -> set_warpIntensity(w, value)
      [] f = "blurPasses"         -> set_blurPasses(w, value)
      [] f = "animationSpeed"     -> set_animationSpeed(w, value)
      [] f = "transitionDuration" -> set_transitionDuration(w, value)
      [] f = "saturation"         -> set_saturation(w, value)
      [] f = "tintColor"          -> set_tintColor(w, value)
      [] f = "tintIntensity"      -> set_tintIntensity(w, value)
      [] f = "dithering"          -> set_dithering(w, value)

Tick ==
    /\ Idle
    /\ now < MaxTicks * TickMs
    /\ now' = now + TickMs
    /\ UNCHANGED <<kawarp, gl, raf, loads, disposed, calls>>

Start ==
    /\ Idle
    /\ kawarp.isPlaying \/ Cardinality(raf.pending) < MaxCallbacks
    /\ Commit(start(World, now))
    /\ UNCHANGED <<loads, now, disposed, calls>>

Stop ==
    /\ Idle
    /\ Commit(stop(World))
    /\ UNCHANGED <<loads, now, disposed, calls>>

\* dispose(); the callbacks still queued when it returns were scheduled
\* before it, and the loads still pending were in flight when it was called.
Dispose ==
    /\ Idle
    /\ LET w == dispose(World)
       IN  Commit([w EXCEPT !.raf.stale = w.raf.pending])
    /\ disposed' = TRUE
    /\ loads' = [l \in LoadIds |->
                   [loads[l] EXCEPT !.orphan = @ \/ loads[l].state = "pending"]]
    /\ UNCHANGED <<now, calls>>

Resize ==
    /\ Idle
    /\ Commit(resize(World))
    /\ UNCHANGED <<loads, now, disposed, calls>>

\* The host sets canvas.width and canvas.height, which clears the canvas.
SetSurface(size) ==
    /\ Idle
    /\ size # gl.surface
    /\ gl' = [gl EXCEPT !.surface = size, !.canvas = NoFrame]
    /\ UNCHANGED <<kawarp, raf, loads, now, disposed, calls>>

\* loadImage(src) / loadBlob(blob): the decode starts, a pending promise is
\* returned.
LoadImage(kind) ==
    /\ Idle
    /\ \E l \in LoadIds :
         /\ loads[l].state = "idle"
         /\ \A j \in 1..(l - 1) : loads[j].state # "idle"
         /\ loads' = [loads EXCEPT ![l] = [state |-> "pending", kind |-> kind,
                                           orphan |-> FALSE]]
    /\ UNCHANGED <<kawarp, gl, raf, now, disposed, calls>>

\* The decode succeeded with image `img`: img.onload, or the continuation
\* of `await createImageBitmap(blob)`.
OnLoad(l, img) ==
    /\ Idle
    /\ loads[l].state = "pending"
    /\ loads' = [loads EXCEPT ![l].state = "resolved", ![l].orphan = FALSE]
    /\ UNCHANGED <<now, disposed, calls>>
    /\ Commit(IF loads[l].kind = "image"
              THEN onload(World, img, now)
              ELSE loadImageElement(World, img, now))

\* The decode failed: img.onerror, or createImageBitmap rejected.
OnError(l) ==
    /\ Idle
    /\ loads[l].state = "pending"
    /\ Commit(onerror(World))
    /\ loads' = [loads EXCEPT ![l].state = "rejected", ![l].orphan = FALSE]
    /\ UNCHANGED <<now, disposed, calls>>

LoadImageElement(img) ==
    /\ Idle
    /\ UNCHANGED <<loads, now, disposed, calls>>
    /\ Commit(loadImageElement(World, img, now))

LoadImageData(img) ==
    /\ Idle
    /\ UNCHANGED <<loads, now, disposed, calls>>
    /\ Commit(loadImageData(World, img, now))

Setter(f, value) ==
    /\ Idle
    /\ Commit(setter(World, f, value))
    /\ UNCHANGED <<loads, now, disposed, calls>>

RECURSIVE Sorted(_)
Sorted(S) ==
    IF S = {} THEN <<>>
    ELSE LET m == CHOOSE x \in S : \A y \in S : x <= y
         IN  <<m>> \o Sorted(S \ {m})

\* A display refresh begins: the callbacks queued so far will run, in the
\* order they were queued, with one timestamp, which is the time the frame
\* began: later than that of the previous refresh, and possibly earlier
\* than the current reading of the clock.
BeginFrame(timestamp) ==
    /\ Idle
    /\ raf.pending # {}
    /\ timestamp > raf.ts
    /\ raf' = [raf EXCEPT !.batch = Sorted(raf.pending), !.pending = {},
                          !.ts = timestamp, !.renders = 0]
    /\ UNCHANGED <<kawarp, gl, loads, now, disposed, calls>>

\* The browser runs the next callback of the refresh: renderLoop(timestamp).
RunCallback ==
    /\ raf.batch # <<>>
    /\ LET id == Head(raf.batch)
           w  == [World EXCEPT !.raf.batch = Tail(raf.batch),
                               !.raf.stale = @ \ {id}]
       IN  Commit(renderLoop(w, raf.ts))
    /\ UNCHANGED <<loads, now, disposed, calls>>

FrameTimestamps == {t \in {now - lag * TickMs : lag \in 0..MaxLag} : t >= 0}

LoadGradient(colors) ==
    /\ Idle
    /\ UNCHANGED <<loads, now, disposed, calls>>
    /\ Commit(loadGradient(World, colors, now))

\* renderFrame(time)
RenderFrameAt(time) ==
    /\ Idle
    /\ Commit(renderFrameAt(World, time, now))
    /\ UNCHANGED <<loads, now, disposed, calls>>

\* renderFrame()
RenderFrameNow ==
    /\ Idle
    /\ Commit(renderFrameNow(World, now))
    /\ UNCHANGED <<loads, now, disposed, calls>>

\* setOptions(options)
SetOptions(options) ==
    /\ Idle
    /\ Commit(setOptions(World, options))
    /\ UNCHANGED <<loads, now, disposed, calls>>

(***************************************************************************)
(* The values the host passes.  LowOptions lies below every documented     *)
(* range and HighOptions above it; MidOptions lies inside, with a          *)
(* blurPasses that is not a whole number.                                  *)
(***************************************************************************)
LowOptions ==
    [warpIntensity |-> -5000, blurPasses |-> -2500, animationSpeed |-> 0,
     transitionDuration |-> -1, saturation |-> -1000,
     tintColor |-> <<-1000, 500, 2000>>, tintIntensity |-> -200, dithering |-> -8]

HighOptions ==
    [warpIntensity |-> 5000, blurPasses |-> 41500, animationSpeed |-> 9000,
     transitionDuration |-> 60000, saturation |-> 3500,
     tintColor |-> <<2000, 2000, 2000>>, tintIntensity |-> 1500, dithering |-> 500]

MidOptions ==
    [warpIntensity |-> 500, blurPasses |-> 2500, tintIntensity |-> 300]

\* The options objects handed to the constructor.
ConstructorOptions == {<<>>, LowOptions, HighOptions, MidOptions}

\* The values handed to the setter of field f.
SetterInputs(f) ==
    {o[f] : o \in {x \in {LowOptions, HighOptions, MidOptions} : Has(x, f)}}
    \cup (IF f = "blurPasses" THEN {999000} ELSE {})

\* The partial options objects handed to setOptions.
PartialOptions ==
    {Restrict(o, F) : o \in {LowOptions, HighOptions, MidOptions},
                      F \in {OptionNames, {"blurPasses", "tintColor", "tintIntensity"},
                             {"warpIntensity", "dithering"}}}

(***************************************************************************)
(* Spec: the life of one engine constructed with no options.               *)
(***************************************************************************)
Init ==
    /\ LET w == constructor(<<>>)
       IN  kawarp = w.k /\ gl = w.gl /\ raf = w.raf
    /\ loads = [l \in LoadIds |-> [state |-> "idle", kind |-> "image", orphan |-> FALSE]]
    /\ now = 0
    /\ disposed = FALSE
    /\ calls = 0

Next ==
    \/ Tick
    \/ Start
    \/ Stop
    \/ Dispose
    \/ Resize
    \/ \E kind \in {"image", "blob"} : LoadImage(kind)
    \/ \E l \in LoadIds, img \in Images : OnLoad(l, img)
    \/ \E l \in LoadIds : OnError(l)
    \/ \E img \in Images : LoadImageElement(img)
    \/ \E img \in Images : LoadImageData(img)
    \/ \E colors \in 1..MaxColors : LoadGradient(colors)
    \/ \E timestamp \in FrameTimestamps : BeginFrame(timestamp)
    \/ RunCallback
    \/ \E time \in {0} : RenderFrameAt(time)
    \/ RenderFrameNow
    \/ \E f \in {"blurPasses", "transitionDuration"} :
         \E value \in SetterInputs(f) : Setter(f, value)

Spec == Init /\ [][Next]_vars

(***************************************************************************)
(* SpecLoop: the animation loop.  The host starts, stops, resizes and      *)
(* disposes the engine and ingests decoded images; the browser refreshes.  *)
(***************************************************************************)
NextLoop ==
    \/ Tick
    \/ Start
    \/ Stop
    \/ Dispose
    \/ Resize
    \/ \E img \in Images : LoadImageElement(img)
    \/ \E timestamp \in FrameTimestamps : BeginFrame(timestamp)
    \/ RunCallback

SpecLoop == Init /\ [][NextLoop]_vars

(***************************************************************************)
(* SpecLoad: image loading.  The host loads images by URL and by blob,     *)
(* ingests decoded images and gradients, renders single frames at a fixed  *)
(* animation time and disposes the engine; a decode succeeds or fails at   *)
(* any later time.                                                         *)
(***************************************************************************)
\* The colour lists handed to loadGradient: one colour, which the canvas
\* rejects, and two colours.
GradientInputs == {1, 2}

NextLoad ==
    \/ Tick
    \/ Dispose
    \/ \E kind \in {"image", "blob"} : LoadImage(kind)
    \/ \E l \in LoadIds, img \in Images : OnLoad(l, img)
    \/ \E l \in LoadIds : OnError(l)
    \/ \E img \in Images : LoadImageElement(img)
    \/ \E img \in Images : LoadImageData(img)
    \/ \E colors \in GradientInputs : LoadGradient(colors)
    \/ \E time \in {0} : RenderFrameAt(time)

SpecLoad == Init /\ [][NextLoad]_vars

(***************************************************************************)
(* SpecOptions: the parameters.  The engine is constructed with any of the *)
(* options objects; the host then assigns parameters one at a time or      *)
(* through setOptions, before or after the first image is ingested.        *)
(***************************************************************************)
MaxCalls == 2

InitOptions ==
    /\ \E options \in ConstructorOptions :
         LET w == constructor(options)
         IN  kawarp = w.k /\ gl = w.gl /\ raf = w.raf
    /\ loads = [l \in LoadIds |-> [state |-> "idle", kind |-> "image", orphan |-> FALSE]]
    /\ now = 0
    /\ disposed = FALSE
    /\ calls = 0

\* One more call of a setter or of setOptions.
Call(w) ==
    /\ calls < MaxCalls
    /\ calls' = calls + 1
    /\ Commit(w)
    /\ UNCHANGED <<loads, now, disposed>>

FirstImage ==
    /\ ~kawarp.hasImage
    /\ LoadImageElement(1)

NextOptions ==
    \/ \E f \in OptionNames : \E value \in SetterInputs(f) :
         Call(setter(World, f, value))
    \/ \E options \in PartialOptions : Call(setOptions(World, options))
    \/ FirstImage

SpecOptions == InitOptions /\ [][NextOptions]_vars

(***************************************************************************)
(* SpecReblur: an image on display.  The host ingests decoded images,      *)
(* assigns the parameters of the blur pipeline and renders single frames   *)
(* as time passes.                                                         *)
(***************************************************************************)
ReblurFields == {"blurPasses", "tintColor", "tintIntensity"}

\* The values the host assigns: blurPasses 2.5 is stored as 2, the red
\* component 2 of the tint as 1.
ReblurInputs ==
    [blurPasses |-> {2500}, tintColor |-> {<<2000, 0, 500>>},
     tintIntensity |-> {300}]

NextReblur ==
    \/ Tick
    \/ \E img \in Images : LoadImageElement(img)
    \/ \E f \in ReblurFields : \E value \in ReblurInputs[f] : Setter(f, value)
    \/ \E time \in {0} : RenderFrameAt(time)

SpecReblur == Init /\ [][NextReblur]_vars

(***************************************************************************)
(* SpecTargets: the render targets.  The host ingests decoded images,      *)
(* changes blurPasses, changes the size of the canvas, resizes, starts and *)
(* disposes the engine and renders single frames.                          *)
(***************************************************************************)
NextTargets ==
    \/ \E img \in Images : LoadImageElement(img)
    \/ \E value \in ReblurInputs.blurPasses : Setter("blurPasses", value)
    \/ \E size \in Surfaces : SetSurface(size)
    \/ Resize
    \/ Start
    \/ Dispose
    \/ \E time \in {0} : RenderFrameAt(time)

SpecTargets == Init /\ [][NextTargets]_vars

(***************************************************************************)
(* SpecTransition: the life of a transition.  The engine is constructed    *)
(* with the default transitionDuration or with a negative one; the host    *)
(* starts and stops the loop, ingests decoded images, changes blurPasses   *)
(* and transitionDuration, resizes and renders single frames, and the      *)
(* browser refreshes the display.                                          *)
(***************************************************************************)
DurationOptions == {<<>>, Restrict(LowOptions, {"transitionDuration"})}

DurationInputs == {0}

InitTransition ==
    /\ \E options \in DurationOptions :
         LET w == constructor(options)
         IN  kawarp = w.k /\ gl = w.gl /\ raf = w.raf
    /\ loads = [l \in LoadIds |-> [state |-> "idle", kind |-> "image", orphan |-> FALSE]]
    /\ now = 0
    /\ disposed = FALSE
    /\ calls = 0

NextTransition ==
    \/ Tick
    \/ Start
    \/ Stop
    \/ Resize
    \/ \E img \in Images : LoadImageElement(img)
    \/ \E value \in ReblurInputs.blurPasses : Setter("blurPasses", value)
    \/ \E value \in DurationInputs : Setter("transitionDuration", value)
    \/ \E timestamp \in FrameTimestamps : BeginFrame(timestamp)
    \/ RunCallback
    \/ \E time \in {0} : RenderFrameAt(time)

SpecTransition == InitTransition /\ [][NextTransition]_vars

(***************************************************************************)
(* SpecFrames: transitions on screen.  The engine is constructed with a    *)
(* transition duration of 0, of 1 s (the default) or of 2 s; the host      *)
(* ingests decoded images, starts the loop and renders single frames, at   *)
(* the engine's own time and at logical times of its choice; the browser   *)
(* refreshes.                                                              *)
(***************************************************************************)
TransitionOptions ==
    {<<>>, [transitionDuration |-> 0], [transitionDuration |-> 2000]}

FrameTimes == {0, 2500}

InitFrames ==
    /\ \E options \in TransitionOptions :
         LET w == constructor(options)
         IN  kawarp = w.k /\ gl = w.gl /\ raf = w.raf
    /\ loads = [l \in LoadIds |-> [state |-> "idle", kind |-> "image", orphan |-> FALSE]]
    /\ now = 0
    /\ disposed = FALSE
    /\ calls = 0

NextFrames ==
    \/ Tick
    \/ Start
    \/ \E img \in Images : LoadImageElement(img)
    \/ \E timestamp \in FrameTimestamps : BeginFrame(timestamp)
    \/ RunCallback
    \/ \E time \in FrameTimes : RenderFrameAt(time)
    \/ RenderFrameNow

SpecFrames == InitFrames /\ [][NextFrames]_vars

(***************************************************************************)
(* SpecReact: the React component.  Mounting constructs the engine and,    *)
(* with a src prop, loads it, starting the loop once it is loaded if       *)
(* autoPlay is set; without a src prop it starts the loop at once if       *)
(* autoPlay is set.  A new src prop is loaded when it differs from the one *)
(* loaded last.  Unmounting disposes the engine.  Each decode succeeds or  *)
(* fails at any later time, whatever the order of the requests.            *)
(***************************************************************************)
MaxUrls == 2
MaxRequests == 2

\* The src props; url decodes to Image(url).
Urls == 1..MaxUrls

Requests == 1..MaxRequests

NoRequest ==
    [state |-> "idle", kind |-> "image", orphan |-> FALSE, src |-> 0,
     autoPlay |-> FALSE]

\* The requests made so far.
Requested == {l \in Requests : loads[l].state # "idle"}

\* currentSrcRef.current: the src handed to loadImage last, 0 for none.
currentSrc ==
    IF Requested = {} THEN 0
    ELSE loads[CHOOSE l \in Requested : \A j \in Requested : j <= l].src

\* kawarp.loadImage(src), with the continuation the component attaches.
Request(src, autoPlay) ==
    LET l == CHOOSE i \in Requests : loads[i].state = "idle" /\
                                     \A j \in 1..(i - 1) : loads[j].state # "idle"
    IN  [loads EXCEPT ![l] = [state |-> "pending", kind |-> "image",
                              orphan |-> FALSE, src |-> src,
                              autoPlay |-> autoPlay]]

\* The effect that runs on mount.
InitReact ==
    /\ now = 0
    /\ disposed = FALSE
    /\ calls = 0
    /\ \E src \in Urls \cup {0}, autoPlay \in BOOLEAN :
         LET w  == constructor(<<>>)
             w1 == IF src = 0 /\ autoPlay THEN start(w, 0) ELSE w
         IN  /\ kawarp = w1.k /\ gl = w1.gl /\ raf = w1.raf
             /\ loads = IF src # 0
                        THEN [[l \in Requests |-> NoRequest] EXCEPT
                                ![1] = [state |-> "pending", kind |-> "image",
                                        orphan |-> FALSE, src |-> src,
                                        autoPlay |-> autoPlay]]
                        ELSE [l \in Requests |-> NoRequest]

\* The src prop changed: the effect that loads it.
SrcChanges(src) ==
    /\ Idle
    /\ ~disposed
    /\ src # currentSrc
    /\ \E l \in Requests : loads[l].state = "idle"
    /\ loads' = Request(src, FALSE)
    /\ UNCHANGED <<kawarp, gl, raf, now, disposed, calls>>

\* The image of request l is decoded: img.onload of loadImage, and then
\* the continuation attached to the promise.
Decoded(l) ==
    /\ Idle
    /\ loads[l].state = "pending"
    /\ loads' = [loads EXCEPT ![l].state = "resolved", ![l].orphan = FALSE]
    /\ UNCHANGED <<now, disposed, calls>>
    /\ LET w == onload(World, loads[l].src, now)
       IN  Commit(IF loads[l].autoPlay THEN start(w, now) ELSE w)

\* The component unmounts: the cleanup of the mount effect.
Unmount ==
    /\ Idle
    /\ ~disposed
    /\ LET w == dispose(World)
       IN  Commit([w EXCEPT !.raf.stale = w.raf.pending])
    /\ disposed' = TRUE
    /\ loads' = [l \in Requests |->
                   [loads[l] EXCEPT !.orphan = @ \/ loads[l].state = "pending"]]
    /\ UNCHANGED <<now, calls>>

NextReact ==
    \/ Tick
    \/ \E src \in Urls : SrcChanges(src)
    \/ \E l \in Requests : Decoded(l)
    \/ \E l \in Requests : OnError(l)
    \/ Unmount
    \/ \E timestamp \in FrameTimestamps : BeginFrame(timestamp)
    \/ RunCallback

SpecReact == InitReact /\ [][NextReact]_vars

(***************************************************************************)
(* The documented contract of the parameters, stated from RANGE alone.     *)
(***************************************************************************)
\* The value of [lo, hi] nearest to v.
Nearest(v, range) ==
    IF v < range[1] THEN range[1] ELSE IF v > range[2] THEN range[2] ELSE v

\* v stored as a whole number of passes in the range: below the range the
\* lower bound, from the upper bound on the upper bound, and in between
\* the whole number n (a multiple of 1000 thousandths) with n <= v < n + 1.
WholeNearest(v, range, stored) ==
    IF v < range[1] THEN stored = range[1]
    ELSE IF v >= range[2] THEN stored = range[2]
    ELSE stored % 1000 = 0 /\ stored <= v /\ v < stored + 1000

\* The documentation allows field f to hold `stored` after it was given v.
Documented(f, v, stored) ==
    CASE f = "blurPasses" -> WholeNearest(v, RANGE[f], stored)
      [] f = "tintColor"  -> stored = [i \in DOMAIN v |-> Nearest(v[i], RANGE[f])]
      [] OTHER            -> stored = Nearest(v, RANGE[f])

\* Field f of an options object lies in its documented range.
InRange(f, v) ==
    CASE f = "blurPasses" ->
            v >= RANGE[f][1] /\ v <= RANGE[f][2] /\ v % 1000 = 0
      [] f = "tintColor"  ->
            \A i \in DOMAIN v : v[i] >= RANGE[f][1] /\ v[i] <= RANGE[f][2]
      [] OTHER            -> v >= RANGE[f][1] /\ v <= RANGE[f][2]

(***************************************************************************)
(* C1.  In every reachable state, each setter given any of the host's      *)
(* values (below, inside and above the range, whole or not) stores the     *)
(* documented value: the nearest bound of the range, for blurPasses after  *)
(* flooring; and setOptions stores the documented value of every field it  *)
(* is given and leaves the other fields as they were.                      *)
(***************************************************************************)
C1_SettersClamp ==
    /\ \A f \in OptionNames : \A value \in SetterInputs(f) :
         Documented(f, value, getOptions(setter(World, f, value).k)[f])
    /\ \A options \in PartialOptions : \A f \in OptionNames :
         LET stored == getOptions(setOptions(World, options).k)[f]
         IN  IF Has(options, f) THEN Documented(f, options[f], stored)
             ELSE stored = getOptions(kawarp)[f]

\* blurPasses = 999 has been stored as 40 and warpIntensity = -5 as 0.
C1_Witness ==
    /\ calls > 0
    /\ kawarp.blurPasses = 40000
    /\ kawarp.warpIntensity = 0

(***************************************************************************)
(* C2.  In every reachable state getOptions() returns every parameter      *)
(* inside its documented range.                                            *)
(***************************************************************************)
C2_OptionsInRange ==
    \A f \in OptionNames : InRange(f, getOptions(kawarp)[f])

(***************************************************************************)
(* C3.  The completion of a load that was in flight when dispose() was     *)
(* called is a no-op: the step that resolves its promise swaps no album    *)
(* slot, sets neither hasImage nor the transition, and leaves the context  *)
(* as it was.                                                              *)
(***************************************************************************)
Resolves(l) == loads[l].state = "pending" /\ loads'[l].state = "resolved"

Rejects(l) == loads[l].state = "pending" /\ loads'[l].state = "rejected"

C3_LoadAfterDisposeNoOp ==
    [][\A l \in LoadIds :
         (loads[l].orphan /\ Resolves(l)) =>
            /\ kawarp'.hasImage = kawarp.hasImage
            /\ kawarp'.isTransitioning = kawarp.isTransitioning
            /\ kawarp'.transitionStartTime = kawarp.transitionStartTime
            /\ kawarp'.currentAlbumFBO = kawarp.currentAlbumFBO
            /\ kawarp'.nextAlbumFBO = kawarp.nextAlbumFBO
            /\ gl' = gl]_vars

(***************************************************************************)
(* C4.  dispose() is idempotent: a call made after an earlier dispose()    *)
(* releases nothing and changes no state of the instance or the context.   *)
(***************************************************************************)
C4_DisposeIdempotent ==
    [][(disposed /\ Dispose) => (kawarp' = kawarp /\ gl' = gl)]_vars

(***************************************************************************)
(* C5.  There is a single animation loop: at most one frame callback is    *)
(* queued at any time and the loop renders at most once per refresh.       *)
(***************************************************************************)
C5_SingleLoop ==
    /\ Cardinality(Queued(raf)) <= 1
    /\ raf.renders <= 1

(***************************************************************************)
(* C6.  Stopping is immediate: whenever the engine is not playing (before  *)
(* the first start() and from each stop() to the next start()), no frame   *)
(* callback is queued.                                                     *)
(***************************************************************************)
C6_StopImmediate ==
    ~kawarp.isPlaying => Queued(raf) = {}

(***************************************************************************)
(* C7.  A frame callback that was scheduled before a dispose() executes no *)
(* render pass when it runs.                                               *)
(***************************************************************************)
C7_NoRenderAfterDispose ==
    [][(raf.batch # <<>> /\ Head(raf.batch) \in raf.stale) =>
          raf'.renders = raf.renders]_vars

(***************************************************************************)
(* C8.  A load that fails leaves the engine as it was: neither the call of *)
(* loadImage / loadBlob nor the step that rejects its promise changes the  *)
(* instance or the context, and a failed decode leads to no other outcome  *)
(* than rejection.                                                         *)
(***************************************************************************)
C8_FailedLoadNoEffect ==
    [][\A l \in LoadIds :
         /\ (loads[l].state = "idle" /\ loads'[l].state = "pending")
               => (kawarp' = kawarp /\ gl' = gl)
         /\ Rejects(l) => (kawarp' = kawarp /\ gl' = gl)
         /\ OnError(l) => Rejects(l)]_vars

\* A load has failed while an image was displayed.
C8_Witness ==
    \E l \in LoadIds :
        /\ loads[l].state = "rejected"
        /\ kawarp.hasImage
        /\ gl.tex[kawarp.nextAlbumFBO] # Empty

(***************************************************************************)
(* C9.  The step that resolves a loadImage promise is the step that        *)
(* uploads and blurs: after it hasImage is true, the transition is Active  *)
(* from the current time, the source texture (while it exists) holds the   *)
(* decoded image and the 'next' album slot holds its tinted blur, and the  *)
(* step renders no frame.                                                  *)
(***************************************************************************)
\* The tinted blur of image content c under the parameters of instance k.
BlurOf(c, k) ==
    [img |-> c.img,
     tint |-> <<k.tintColor[1], k.tintColor[2], k.tintColor[3], k.tintIntensity>>,
     offs |-> [i \in 1..((k.blurPasses + 999) \div 1000) |-> (i - 1) * 1000 + 500],
     mix |-> <<>>]

C9_ResolveAfterUploadAndBlur ==
    [][\A l \in LoadIds :
         (Resolves(l) /\ loads[l].kind = "image") =>
            /\ kawarp'.hasImage
            /\ kawarp'.isTransitioning
            /\ kawarp'.transitionStartTime = now
            /\ gl'.canvas = gl.canvas
            /\ gl'.warp = gl.warp
            /\ "sourceTexture" \in gl.live =>
                 \E img \in Images :
                     /\ OnLoad(l, img)
                     /\ gl'.tex["sourceTexture"] = Image(img)
                     /\ gl'.tex[kawarp'.nextAlbumFBO] = BlurOf(Image(img), kawarp')]_vars

\* A loadImage promise has resolved on a live engine.
C9_Witness ==
    \E l \in LoadIds :
        /\ loads[l].state = "resolved"
        /\ loads[l].kind = "image"
        /\ ~disposed
        /\ kawarp.hasImage
        /\ kawarp.isTransitioning
        /\ gl.tex[kawarp.nextAlbumFBO] = BlurOf(Image(1), kawarp)

(***************************************************************************)
(* C10.  Every successful ingest (loadImage, loadBlob, loadImageElement,   *)
(* loadImageData, loadGradient of two or more colours) leaves the          *)
(* transition Active with its start timestamp the time of the ingest.      *)
(***************************************************************************)
\* A step that is a successful ingest.  Every ingest exchanges the roles of
\* the two album slots, and no other operation does.
IngestStep ==
    /\ kawarp'.currentAlbumFBO = kawarp.nextAlbumFBO
    /\ kawarp'.nextAlbumFBO = kawarp.currentAlbumFBO
    /\ \/ \E l \in LoadIds, img \in Images : OnLoad(l, img)
       \/ \E img \in Images : LoadImageElement(img)
       \/ \E img \in Images : LoadImageData(img)
       \/ \E colors \in GradientInputs \ {1} : LoadGradient(colors)

C10_IngestStartsTransition ==
    [][(kawarp'.isTransitioning /\ kawarp'.transitionStartTime = now)
       \/ ~IngestStep]_vars

\* A second image was ingested, later than the first, while the first
\* transition was still Active (no frame had been rendered to end it).
C10_Witness ==
    /\ kawarp.isTransitioning
    /\ kawarp.transitionStartTime = now
    /\ now > 0
    /\ gl.tex[kawarp.currentAlbumFBO] # Empty
    /\ ~gl.canvas.drawn
    /\ ~disposed

(***************************************************************************)
(* C11.  A step that changes the stored blurPasses, tintColor or           *)
(* tintIntensity while an image is loaded writes the blur of the source    *)
(* texture, under the new parameters, into the 'next' album target, and    *)
(* leaves everything the transition depends on as it was: isTransitioning, *)
(* the start timestamp and the duration (hence the blend factor of the     *)
(* next frame), the roles of the two album targets and the content of      *)
(* 'current'.  In particular an Idle engine stays Idle.                    *)
(***************************************************************************)
BlurParameters(k) == <<k.blurPasses, k.tintColor, k.tintIntensity>>

Transition(k) ==
    <<k.isTransitioning, k.transitionStartTime, k.transitionDuration,
      k.currentAlbumFBO, k.nextAlbumFBO, k.hasImage>>

C11_ReblurKeepsTransition ==
    [][(BlurParameters(kawarp') # BlurParameters(kawarp) /\ kawarp.hasImage)
        => /\ Transition(kawarp') = Transition(kawarp)
           /\ gl'.tex[kawarp.currentAlbumFBO] = gl.tex[kawarp.currentAlbumFBO]
           /\ gl'.tex["sourceTexture"] = gl.tex["sourceTexture"]
           /\ gl'.tex[kawarp.nextAlbumFBO]
                = BlurOf(gl.tex["sourceTexture"], kawarp')]_vars

\* An engine that is Idle on an image blurred with parameters other than
\* those it was ingested under: a re-blur has run and the state stayed Idle.
C11_Witness ==
    /\ kawarp.hasImage
    /\ ~kawarp.isTransitioning
    /\ gl.canvas.drawn
    /\ BlurParameters(kawarp) = <<2000, <<1000, 0, 500>>, 300>>
    /\ gl.tex[kawarp.nextAlbumFBO] = BlurOf(Image(1), kawarp)

(***************************************************************************)
(* C12.  Between construction and disposal the context holds exactly two   *)
(* album targets, two blur scratch targets, one full-resolution target and *)
(* one source texture, whatever was ingested, re-blurred, resized or       *)
(* rendered: no object is allocated beyond the live ones, and 'current'    *)
(* and 'next' are the two album targets.                                   *)
(***************************************************************************)
C12_TargetCount ==
    ~disposed =>
        /\ gl.live \ (Programs \cup Buffers)
             = {"albumFBO1", "albumFBO2", "blurFBO1", "blurFBO2", "warpFBO",
                "sourceTexture"}
        /\ gl.allocated - Cardinality(Programs \cup Buffers) = 6
        /\ {kawarp.currentAlbumFBO, kawarp.nextAlbumFBO}
             = {"albumFBO1", "albumFBO2"}
        /\ kawarp.warpFBO = "warpFBO"

\* Before disposal: an image was ingested and re-blurred under blurPasses 2,
\* the canvas changed size, resize() ran and a frame was rendered after it.
C12_Witness ==
    /\ ~disposed
    /\ kawarp.hasImage
    /\ kawarp.blurPasses = 2000
    /\ gl.tex[kawarp.nextAlbumFBO] = BlurOf(Image(1), kawarp)
    /\ gl.warpSize = 600
    /\ gl.canvas.drawn

(***************************************************************************)
(* C13.  With transitionDuration = 0, a frame rendered while a transition  *)
(* is Active ends it: the engine is Idle after the frame and the frame     *)
(* drew no blend pass (the blend pass draws into blurFBO1), whatever the   *)
(* time elapsed since the ingest.                                          *)
(***************************************************************************)
\* A step that renders a frame: renderFrame(), renderFrame(time), or the
\* frame callback of a playing engine.
FrameStep ==
    \/ RenderFrameNow
    \/ \E time \in FrameTimes : RenderFrameAt(time)
    \/ kawarp.isPlaying /\ RunCallback

C13_ZeroDurationCompletes ==
    [][(kawarp.transitionDuration = 0 /\ kawarp.isTransitioning /\ FrameStep)
        => /\ ~kawarp'.isTransitioning
           /\ gl'.tex["blurFBO1"] = gl.tex["blurFBO1"]]_vars

(***************************************************************************)
(* C14.  Nothing is drawn to the canvas before the first ingest: a canvas  *)
(* that holds a frame of the engine belongs to an engine with an image.    *)
(***************************************************************************)
C14_NoFrameBeforeImage == gl.canvas.drawn => kawarp.hasImage

(***************************************************************************)
(* C15.  renderFrame(time) renders one frame at the logical time it is     *)
(* given (the warp pass and the frame on the canvas carry that time) and   *)
(* bypasses the loop: the frame queue is as it was, and so are isPlaying,  *)
(* the accumulated logical time, the last-frame timestamp and the smoothed *)
(* speed.                                                                  *)
(***************************************************************************)
Clock(k) ==
    <<k.isPlaying, k.accumulatedTime, k.lastFrameTime, k.animationSpeed,
      k.targetAnimationSpeed, k.animationId>>

C15_RenderFrameAtBypassesLoop ==
    [][\A time \in FrameTimes :
         RenderFrameAt(time)
           => /\ raf' = raf
              /\ Clock(kawarp') = Clock(kawarp)
              /\ gl'.warp.time = time
              /\ gl'.canvas.drawn
              /\ gl'.canvas.warp.time = time]_vars

\* A playing engine with an image, started at clock 0, whose canvas shows a
\* frame rendered at logical time 2500 at clock 1000.
C15_Witness ==
    /\ kawarp.hasImage
    /\ kawarp.isPlaying
    /\ raf.pending # {}
    /\ now = 1000
    /\ kawarp.lastFrameTime = 0
    /\ kawarp.accumulatedTime = 0
    /\ gl.canvas.drawn
    /\ gl.canvas.warp.time = 2500

(***************************************************************************)
(* C16.  resize() replaces the full-resolution target by an empty one of   *)
(* the size the canvas has now, and changes nothing else: the scratch and  *)
(* album targets and the source texture with their contents, the instance  *)
(* (roles of the album targets, hasImage, the transition, the play state), *)
(* the frame queue and the canvas are as they were.                        *)
(***************************************************************************)
C16_ResizeOnlyFullResTarget ==
    [][Resize
        => /\ "warpFBO" \in gl'.live
           /\ gl'.warpSize = gl.surface
           /\ gl'.warp = NoWarp
           /\ gl'.live \ {"warpFBO"} = gl.live \ {"warpFBO"}
           /\ gl'.tex = gl.tex
           /\ gl'.surface = gl.surface
           /\ gl'.canvas = gl.canvas
           /\ kawarp' = kawarp
           /\ raf' = raf]_vars

\* A playing engine in a transition whose canvas was set to 600 pixels and
\* drawn to, and whose full-resolution target was then replaced by an empty
\* one of that size.
C16_Witness ==
    /\ kawarp.hasImage
    /\ kawarp.isTransitioning
    /\ kawarp.isPlaying
    /\ gl.surface = 600
    /\ gl.canvas.drawn
    /\ gl.warpSize = 600
    /\ gl.warp = NoWarp

(***************************************************************************)
(* C17.  Before disposal, loadGradient with any non-empty list of colour   *)
(* stops, a single colour included, hands addColorStop offsets in [0, 1],  *)
(* the first 0 and the last 1, does not throw, and ingests the gradient:   *)
(* the album targets trade roles once, 'next' holds the blur of the        *)
(* gradient, hasImage is set and a transition starts at the current time.  *)
(***************************************************************************)
C17_GradientIngests ==
    ~disposed =>
      \A colors \in 1..MaxColors :
        LET offsets == StopOffsets(colors)
            after   == loadGradient(World, colors, now)
        IN  /\ \A i \in DOMAIN offsets :
                  /\ offsets[i].kind = "num"
                  /\ 0 <= offsets[i].n /\ offsets[i].n <= offsets[i].d
            /\ offsets[0].n = 0
            /\ offsets[colors - 1].n = offsets[colors - 1].d
            /\ ~GradientThrows(colors)
            /\ after.k.currentAlbumFBO = kawarp.nextAlbumFBO
            /\ after.k.nextAlbumFBO = kawarp.currentAlbumFBO
            /\ after.gl.tex[after.k.nextAlbumFBO]
                 = BlurOf(Image(GradientRaster(colors)), after.k)
            /\ after.k.hasImage
            /\ after.k.isTransitioning
            /\ after.k.transitionStartTime = now

(***************************************************************************)
(* C18.  'current' and 'next' are always the two distinct album targets    *)
(* created at construction.  An ingest exchanges their roles and copies    *)
(* nothing: the target that was 'next' is 'current' afterwards with its    *)
(* content untouched, the target that was 'current' is 'next' and (on a    *)
(* live context) holds the blur of the new source, and the transition      *)
(* starts at the time of the ingest, also when one was under way.          *)
(***************************************************************************)
\* An ingest, by any of the public operations.
Ingest ==
    \/ \E l \in LoadIds, img \in Images : OnLoad(l, img)
    \/ \E img \in Images : LoadImageElement(img)
    \/ \E img \in Images : LoadImageData(img)
    \/ \E colors \in GradientInputs \ {1} : LoadGradient(colors)

AlbumRoles ==
    /\ kawarp.currentAlbumFBO # kawarp.nextAlbumFBO
    /\ {kawarp.currentAlbumFBO, kawarp.nextAlbumFBO} = {"albumFBO1", "albumFBO2"}

\* What an ingest does to the album targets and the transition.
Swapped ==
    /\ kawarp'.currentAlbumFBO = kawarp.nextAlbumFBO
    /\ kawarp'.nextAlbumFBO = kawarp.currentAlbumFBO
    /\ gl'.tex[kawarp'.currentAlbumFBO] = gl.tex[kawarp.nextAlbumFBO]
    /\ kawarp'.isTransitioning
    /\ kawarp'.transitionStartTime = now
    /\ "sourceTexture" \in gl.live =>
         gl'.tex[kawarp'.nextAlbumFBO] = BlurOf(gl'.tex["sourceTexture"], kawarp')

C18_IngestSwapsRoles ==
    /\ []AlbumRoles
    /\ [][Swapped \/ ~Ingest]_vars

\* A live engine in the middle of a transition restarted at clock 1000:
\* 'current' is albumFBO2 again after two ingests, and both album targets
\* hold a blurred image, the one in 'current' being the gradient that was
\* 'next' before the second ingest.
C18_Witness ==
    /\ ~disposed
    /\ kawarp.isTransitioning
    /\ kawarp.transitionStartTime = 1000
    /\ kawarp.currentAlbumFBO = "albumFBO2"
    /\ gl.tex["albumFBO2"] = BlurOf(Image(GradientRaster(2)), kawarp)
    /\ gl.tex["albumFBO1"] = BlurOf(Image(1), kawarp)

(***************************************************************************)
(* C19.  With a positive transitionDuration, the blend factor of every     *)
(* blend pass drawn (the blend pass draws into blurFBO1) is a number in    *)
(* [0, 1], whatever timestamp the frame was rendered with.                 *)
(***************************************************************************)
C19_BlendFactorInRange ==
    (kawarp.transitionDuration > 0 /\ gl.tex["blurFBO1"].mix # <<>>)
        => LET blend == gl.tex["blurFBO1"].mix[3]
           IN  /\ blend.kind = "num"
               /\ 0 <= blend.n
               /\ blend.n <= blend.d

(***************************************************************************)
(* C20.  With a positive transitionDuration, the blend factors of the      *)
(* frames of one transition never decrease: a frame rendered while the     *)
(* transition is Active either ends it (factor 1.0, no blend pass) or      *)
(* draws a blend pass whose factor is a number not below that of the blend *)
(* pass before it.  An ingest overwrites blurFBO1, so a blend pass found   *)
(* there belongs to the transition under way.                              *)
(***************************************************************************)
Blended(g) == g.tex["blurFBO1"].mix # <<>>

BlendFactor(g) == g.tex["blurFBO1"].mix[3]

C20_BlendFactorMonotonic ==
    [][(kawarp.transitionDuration > 0 /\ kawarp.isTransitioning /\ FrameStep)
        => \/ ~kawarp'.isTransitioning /\ gl'.tex["blurFBO1"] = gl.tex["blurFBO1"]
           \/ /\ Blended(gl')
              /\ BlendFactor(gl').kind = "num"
              /\ Blended(gl) =>
                   BlendFactor(gl).n * BlendFactor(gl').d
                     <= BlendFactor(gl').n * BlendFactor(gl).d]_vars

(***************************************************************************)
(* C21.  A transition ends only in a step that renders a frame whose blend *)
(* factor has reached 1.0, and a frame of the playing loop rendered once   *)
(* the transition duration has elapsed ends it: with the display           *)
(* refreshing and time passing, every transition of a playing engine that  *)
(* no ingest restarts returns to Idle.                                     *)
(***************************************************************************)
\* elapsed / transitionDuration >= 1.0 for a frame rendered with `timestamp`
Reached(timestamp) ==
    LET elapsed  == timestamp - kawarp.transitionStartTime
        duration == kawarp.transitionDuration
    IN  \/ duration > 0 /\ elapsed >= duration
        \/ duration = 0 /\ elapsed > 0
        \/ duration < 0 /\ elapsed <= duration

EndsOnlyInFrame ==
    (kawarp.isTransitioning /\ ~kawarp'.isTransitioning)
        => \/ Reached(raf.ts) /\ kawarp.isPlaying /\ RunCallback
           \/ /\ Reached(now)
              /\ RenderFrameNow \/ \E time \in FrameTimes : RenderFrameAt(time)

EndsOnceElapsed ==
    (/\ kawarp.isTransitioning
     /\ kawarp.isPlaying
     /\ raf.ts > kawarp.transitionStartTime
     /\ raf.ts - kawarp.transitionStartTime >= kawarp.transitionDuration
     /\ RunCallback)
        => ~kawarp'.isTransitioning

C21_TransitionEndsInFrame == [][EndsOnlyInFrame /\ EndsOnceElapsed]_vars

(***************************************************************************)
(* C22.  In every state, each operation runs the blur pipeline (which      *)
(* begins with the one draw of the tint program) as often as it should:    *)
(* an ingest once; the setter of blurPasses, tintColor or tintIntensity    *)
(* once if an image is loaded and the stored value changes, and otherwise  *)
(* not at all; every other setter, a frame of the loop, renderFrame,       *)
(* resize, start and stop never, and none of these draws with the tint or  *)
(* the blur program.                                                       *)
(***************************************************************************)
\* The draw calls of the operation that led to world w, by program.
DrawsOf(w, programs) ==
    {i \in DOMAIN w.gl.log : w.gl.log[i].program \in programs}

BlurRuns(w) == Cardinality(DrawsOf(w, {"tintProgram"}))

NoBlurDraw(w) == DrawsOf(w, {"tintProgram", "blurProgram"}) = {}

C22_BlurOnlyWhenNeeded ==
    /\ \A img \in Images :
          /\ BlurRuns(loadImageElement(World, img, now)) = 1
          /\ BlurRuns(loadImageData(World, img, now)) = 1
          /\ BlurRuns(onload(World, img, now)) = 1
    /\ BlurRuns(loadGradient(World, 2, now)) = 1
    /\ \A f \in OptionNames : \A value \in SetterInputs(f) \cup {getOptions(kawarp)[f]} :
          LET after == setter(World, f, value)
          IN  IF f \in ReblurFields /\ kawarp.hasImage /\ after.k[f] # kawarp[f]
              THEN BlurRuns(after) = 1
              ELSE NoBlurDraw(after)
    /\ \A time \in FrameTimes : NoBlurDraw(renderFrameAt(World, time, now))
    /\ NoBlurDraw(renderFrameNow(World, now))
    /\ NoBlurDraw(renderLoop(start(World, now), now))
    /\ NoBlurDraw(resize(World))
    /\ NoBlurDraw(start(World, now))
    /\ NoBlurDraw(stop(World))

\* An image is loaded and a setter has changed each of the three blur
\* parameters since the engine was constructed with the defaults.
C22_Witness ==
    /\ kawarp.hasImage
    /\ calls >= 2
    /\ kawarp.blurPasses = 2000
    /\ kawarp.tintIntensity = 300
    /\ kawarp.saturation = 1500
    /\ gl.tex[kawarp.nextAlbumFBO] = BlurOf(Image(1), kawarp)

(***************************************************************************)
(* C23.  In every state, a frame (of renderFrame or of the playing loop)   *)
(* draws, in this order: if its blend factor is below 1, the blend pass    *)
(* from the 'current' and 'next' album textures into the scratch target    *)
(* blurFBO1, the warp pass sampling blurFBO1, and the output pass; and     *)
(* otherwise the warp pass sampling the 'next' album texture and the       *)
(* output pass, with no blend pass.  The blend factor is 1.0 when no       *)
(* transition is under way.                                                *)
(***************************************************************************)
\* elapsed / transitionDuration < 1, for a frame rendered with `timestamp`
\* during a transition
Below(timestamp) ==
    LET elapsed  == timestamp - kawarp.transitionStartTime
        duration == kawarp.transitionDuration
    IN  /\ kawarp.isTransitioning
        /\ \/ duration > 0 /\ elapsed < duration
           \/ duration = 0 /\ elapsed < 0
           \/ duration < 0 /\ elapsed > duration

\* The draw calls of the operation that led to world w: program, render
\* target and textures sampled.
Passes(w) ==
    [i \in DOMAIN w.gl.log |->
        <<w.gl.log[i].program, w.gl.log[i].target, w.gl.log[i].reads>>]

FramePasses(timestamp) ==
    IF Below(timestamp)
    THEN << <<"blendProgram", "blurFBO1",
              {kawarp.currentAlbumFBO, kawarp.nextAlbumFBO}>>,
            <<"warpProgram", "warpFBO", {"blurFBO1"}>>,
            <<"outputProgram", "canvas", {"warpFBO"}>> >>
    ELSE << <<"warpProgram", "warpFBO", {kawarp.nextAlbumFBO}>>,
            <<"outputProgram", "canvas", {"warpFBO"}>> >>

C23_FramePasses ==
    /\ \A time \in FrameTimes :
          Passes(renderFrameAt(World, time, now)) = FramePasses(now)
    /\ Passes(renderFrameNow(World, now)) = FramePasses(now)
    /\ kawarp.isPlaying =>
          \A timestamp \in FrameTimestamps :
              Passes(renderLoop(World, timestamp)) = FramePasses(timestamp)

\* A playing engine in a transition that started at clock 1000 and whose
\* last frame blended: a frame at timestamp 0 blends, and with a zero
\* duration a frame at timestamp 1000 does not.
C23_Witness ==
    /\ kawarp.isPlaying
    /\ kawarp.isTransitioning
    /\ kawarp.transitionStartTime = 1000
    /\ kawarp.transitionDuration = 0
    /\ now = 1000
    /\ gl.tex["blurFBO1"].mix # <<>>
    /\ gl.canvas.drawn

(***************************************************************************)
(* C24.  In every state the smoothed current speed lies in [0.1, 5]; the   *)
(* animationSpeed setter changes the target speed, which getOptions        *)
(* reports, and nothing else; and a tick of the clock (a frame of the      *)
(* loop, or renderFrame()) at a time not before the last one moves the     *)
(* current speed a twentieth of the gap towards the target without         *)
(* passing it, and advances the logical time by dt times the new current   *)
(* speed, so that it does not decrease.                                    *)
(***************************************************************************)
SpeedInRange(speed) == 100 <= speed /\ speed <= 5000

\* k1 is k after a tick with time step dt.
Ticked(k, k1, dt) ==
    LET gap  == k.targetAnimationSpeed - k.animationSpeed
        step == k1.animationSpeed - k.animationSpeed
    IN  /\ gap - 20 < 20 * step /\ 20 * step < gap + 20
        /\ Min(k.animationSpeed, k.targetAnimationSpeed) <= k1.animationSpeed
        /\ k1.animationSpeed <= Max(k.animationSpeed, k.targetAnimationSpeed)
        /\ k1.targetAnimationSpeed = k.targetAnimationSpeed
        /\ k1.accumulatedTime = k.accumulatedTime + dt * k1.animationSpeed
        /\ k1.accumulatedTime >= k.accumulatedTime

C24_SpeedSmoothing ==
    /\ SpeedInRange(kawarp.animationSpeed)
    /\ \A value \in SetterInputs("animationSpeed") :
          LET after == set_animationSpeed(World, value)
          IN  /\ after = [World EXCEPT !.k.targetAnimationSpeed =
                                         after.k.targetAnimationSpeed]
              /\ SpeedInRange(after.k.targetAnimationSpeed)
              /\ getOptions(after.k).animationSpeed = after.k.targetAnimationSpeed
    /\ \A t \in {now, now + TickMs} :
          /\ t >= kawarp.lastFrameTime =>
                Ticked(kawarp, renderFrameNow(World, t).k, t - kawarp.lastFrameTime)
          /\ Ticked(start(World, now).k, renderLoop(start(World, now), t).k, t - now)

(***************************************************************************)
(* C25.  On a live context, for every blurPasses N in 1..40, a run of the  *)
(* blur pipeline (in an ingest with blurPasses N, or in the re-blur of the *)
(* blurPasses setter) draws N + 2 passes: the tint pass from the source    *)
(* texture into blurFBO1; N blur passes, the i-th at offset i - 0.5,       *)
(* reading the target the pass before it wrote and writing the other       *)
(* scratch target; and a copy (offset 0) of the target written last into   *)
(* the destination album target.  No pass of the pipeline or of a frame    *)
(* samples the texture of the target it draws into.                        *)
(***************************************************************************)
Scratch(i) == IF i % 2 = 0 THEN "blurFBO1" ELSE "blurFBO2"

Offsets(n) == [i \in 1..n |-> i * 1000 - 500]

\* `log` is one run of the pipeline with N passes into `destination`.
PipelineRun(log, N, destination) ==
    /\ Len(log) = N + 2
    /\ log[1].program = "tintProgram"
    /\ log[1].target = "blurFBO1"
    /\ log[1].reads = {"sourceTexture"}
    /\ \A i \in 1..N :
          /\ log[i + 1].program = "blurProgram"
          /\ log[i + 1].reads = {Scratch(i - 1)}
          /\ log[i + 1].target = Scratch(i)
          /\ log[i + 1].wrote.offs = Offsets(i)
    /\ log[N + 2].program = "blurProgram"
    /\ log[N + 2].reads = {Scratch(N)}
    /\ log[N + 2].target = destination
    /\ log[N + 2].wrote = log[N + 1].wrote

NoFeedback(w) ==
    \A i \in DOMAIN w.gl.log : w.gl.log[i].target \notin w.gl.log[i].reads

C25_BlurPipelinePasses ==
    ~disposed =>
      /\ \A N \in (RANGE.blurPasses[1] \div 1000)..(RANGE.blurPasses[2] \div 1000) :
            LET after == loadImageElement([World EXCEPT !.k.blurPasses = N * 1000],
                                          1, now)
            IN  /\ PipelineRun(after.gl.log, N, kawarp.currentAlbumFBO)
                /\ NoFeedback(after)
      /\ \A value \in SetterInputs("blurPasses") :
            LET after == set_blurPasses(World, value)
                N     == after.k.blurPasses \div 1000
            IN  /\ (kawarp.hasImage /\ after.k.blurPasses # kawarp.blurPasses)
                      => PipelineRun(after.gl.log, N, kawarp.nextAlbumFBO)
                /\ NoFeedback(after)
      /\ \A time \in FrameTimes : NoFeedback(renderFrameAt(World, time, now))
      /\ NoFeedback(renderFrameNow(World, now))
      /\ NoFeedback(renderLoop(start(World, now), now))

\* A live engine whose canvas shows a frame that blended (the blend pass
\* wrote blurFBO1) and whose 'next' target was then re-blurred with two
\* passes, which overwrote blurFBO1.
C25_Witness ==
    /\ ~disposed
    /\ kawarp.hasImage
    /\ kawarp.blurPasses = 2000
    /\ gl.canvas.drawn
    /\ gl.canvas.warp.src.mix # <<>>
    /\ gl.tex["blurFBO1"].mix = <<>>
    /\ gl.tex[kawarp.nextAlbumFBO].offs = Offsets(2)

(***************************************************************************)
(* C26.  On a live context, what a run of the blur pipeline writes into    *)
(* an album target is determined by the source texture, blurPasses,        *)
(* tintColor and tintIntensity: it is the same whatever the two scratch    *)
(* targets and the two album targets held before the run, and it is the    *)
(* tinted, N times blurred source.                                         *)
(***************************************************************************)
\* The world with content c in both scratch targets and both album targets.
Overwritten(w, c) ==
    [w EXCEPT !.gl.tex = [t \in SmallTextures |->
                            IF t = "sourceTexture" THEN @[t] ELSE c]]

\* What a run of the pipeline in world w leaves in the target it blurs into.
Blurred(w, targetFBO) == blurSourceInto(w, targetFBO).gl.tex[targetFBO]

C26_BlurDependsOnInputsOnly ==
    ~disposed =>
      \A targetFBO \in {kawarp.currentAlbumFBO, kawarp.nextAlbumFBO} :
        /\ Blurred(World, targetFBO) = BlurOf(gl.tex["sourceTexture"], kawarp)
        /\ \A t \in SmallTextures :
              Blurred(Overwritten(World, gl.tex[t]), targetFBO)
                = Blurred(World, targetFBO)

\* The blur parameters were changed after the ingest, and a frame then
\* blended into blurFBO1: the scratch target holds a blend of the two album
\* targets, and 'next' the source blurred under the parameters of now.
C26_Witness ==
    /\ ~disposed
    /\ kawarp.hasImage
    /\ BlurParameters(kawarp) = <<2000, <<1000, 0, 500>>, 300>>
    /\ gl.tex["blurFBO1"].mix # <<>>
    /\ gl.tex["blurFBO1"].mix[2] = BlurOf(Image(1), kawarp)

(***************************************************************************)
(* C27.  On a live engine with an image loaded, the 'next' album target    *)
(* holds the source texture tinted and blurred under the blurPasses,       *)
(* tintColor and tintIntensity of now: after the ingest, after every       *)
(* setter and after every setOptions, whichever of the three fields it     *)
(* changes, and again after one more ingest.                               *)
(***************************************************************************)
NextIsBlurred(w) ==
    w.k.hasImage =>
      w.gl.tex[w.k.nextAlbumFBO] = BlurOf(w.gl.tex["sourceTexture"], w.k)

C27_NextSlotFollowsParameters ==
    ~disposed =>
      /\ NextIsBlurred(World)
      /\ \A img \in Images : NextIsBlurred(loadImageElement(World, img, now))

\* A single call brought the three parameters to the top of their ranges.  No
\* constructor input leaves more than one of them there, so the call was a
\* setOptions that changed several of them at once.
C27_Witness ==
    /\ ~disposed
    /\ kawarp.hasImage
    /\ calls = 1
    /\ BlurParameters(kawarp) = <<40000, <<1000, 1000, 1000>>, 1000>>

(***************************************************************************)
(* C28.  When loads overlap, the image on display once all of them have    *)
(* settled is the one requested last: with every request of a mounted      *)
(* component resolved, the 'next' album target holds the blurred image of  *)
(* the src handed to loadImage last, whatever the order of the decodes.    *)
(***************************************************************************)
C28_LastRequestWins ==
    (~disposed /\ Requested # {} /\ \A l \in Requested : loads[l].state = "resolved")
       => gl.tex[kawarp.nextAlbumFBO] = BlurOf(Image(currentSrc), kawarp)

(***************************************************************************)
(* C29.  Once the component is unmounted and its engine disposed, the      *)
(* engine's loop is not playing and no callback of a display refresh       *)
(* renders a frame, also when the image requested at mount with autoPlay   *)
(* set is decoded after the unmount.                                       *)
(***************************************************************************)
C29_NoLoopAfterUnmount ==
    /\ [](disposed => ~kawarp.isPlaying)
    /\ [][(disposed /\ raf.batch # <<>>) => raf'.renders = raf.renders]_vars

(***************************************************************************)
(* C30.  A disposed engine is inert: it owns no live GPU object and is not *)
(* playing, and from there start() does not set the loop playing,          *)
(* renderFrame() issues no draw call, resize() creates no object and an    *)
(* assignment to blurPasses issues no draw call.                           *)
(***************************************************************************)
C30_DisposedEngineInert ==
    disposed =>
      /\ gl.live = {}
      /\ ~kawarp.isPlaying
      /\ ~start(World, now).k.isPlaying
      /\ renderFrameAt(World, 0, now).gl.log = <<>>
      /\ resize(World).gl.live = {}
      /\ \A value \in SetterInputs("blurPasses") :
            set_blurPasses(World, value).gl.log = <<>>

====
